---- MODULE Spec2Model ----
(***************************************************************************)
(* A model of h5utils: the HDF5 container writer (h5_interfaces.py), the   *)
(* structure printer (h5_interfaces.py) and the project path resolver      *)
(* (project_path.py).  The container library (h5py), numpy and the file    *)
(* system are modelled by what the calls made in the source do.            *)
(***************************************************************************)
EXTENDS Integers, Sequences, FiniteSets, TLC

VARIABLES
    h5file,     \* the container file at file_path: absent, or its datasets
    last,       \* the container call just made: op, dataset name, shape, result
    lastData,   \* data_array of the last write_data_and_label call that returned
    lastStrs,   \* label strings of the last write_data_and_label call that returned
    fsDirs,     \* the directories of the file system (paths from the root)
    fsFiles,    \* the regular files of the file system
    repos,      \* the directories that are the top level of a git working tree
    cwd,        \* the working directory
    pathLast,   \* the path resolver call just made and how it ended
    prGroup,    \* the group handed to print_hdf5_structure
    prOut,      \* the lines print_hdf5_structure printed
    prResult    \* how the call ended: "ok" or the exception raised

h5vars == <<h5file, last, lastData, lastStrs>>

pathvars == <<fsDirs, fsFiles, repos, cwd, pathLast>>

printvars == <<prGroup, prOut, prResult>>

vars ==
    <<h5file, last, lastData, lastStrs, fsDirs, fsFiles, repos, cwd, pathLast,
      prGroup, prOut, prResult>>

(***************************************************************************)
(* Bounds of the model.                                                    *)
(***************************************************************************)
\* arrays have at most MaxSize elements and rank at most 2
MaxSize == 2

\* the deepest working directory is MaxDepth levels below the file system root
MaxDepth == 2

\* groups are nested at most MaxNest deep below the printed group
MaxNest == 1

(***************************************************************************)
(* numpy arrays: a shape and the elements in row-major (C) order.          *)
(***************************************************************************)
RECURSIVE Product(_)
Product(s) == IF s = <<>> THEN 1 ELSE Head(s) * Product(Tail(s))

Size(shape) == Product(shape)

Dims == 1..MaxSize

\* the shapes without a leading axis or with an empty one: a scalar, an
\* empty vector, an empty matrix of one column
DegenerateShapes == {<<>>, <<0>>, <<0, 1>>}

\* the shapes of rank 1 and 2 whose size is within the bound, and the
\* degenerate ones
Shapes ==
    DegenerateShapes
        \cup {<<a>> : a \in Dims}
        \cup {s \in {<<a, b>> : a \in Dims, b \in Dims} : s[1] * s[2] <= MaxSize}

\* the caller's arrays (float64) hold consecutive integers from 1.0, which
\* binary32 represents, or from 2^24 + 1, which it does not
FirstValues == {1, 16777217}

ArraysOf(shape) ==
    {[shape |-> shape, elems |-> [i \in 1..Size(shape) |-> v + i - 1]] :
        v \in FirstValues}

\* the second dataset name is exercised with a scalar and a one-element shape
SecondaryShapes == {<<>>, <<1>>}

\* the 0-based multi-index of the k-th element (k 0-based) of a C-ordered array
RECURSIVE Unravel(_, _)
Unravel(k, shape) ==
    IF shape = <<>> THEN <<>>
    ELSE LET inner == Product(Tail(shape))
         IN  <<k \div inner>> \o Unravel(k % inner, Tail(shape))

\* the 0-based flat position of a 0-based multi-index
RECURSIVE Ravel(_, _)
Ravel(idx, shape) ==
    IF shape = <<>> THEN 0
    ELSE Head(idx) * Product(Tail(shape)) + Ravel(Tail(idx), Tail(shape))

(***************************************************************************)
(* Conversion of a non-negative integer-valued float64 to binary32         *)
(* (24-bit significand, round to nearest, ties to even): what HDF5 does    *)
(* when a float64 array is written to a float32 dataset.                   *)
(***************************************************************************)
RECURSIVE Quantum(_, _)
Quantum(v, q) == IF v < 16777216 * q THEN q ELSE Quantum(v, 2 * q)

ToFloat32(v) ==
    LET q   == Quantum(v, 1)
        lo  == (v \div q) * q
        rem == v - lo
    IN  IF 2 * rem < q THEN lo
        ELSE IF 2 * rem > q THEN lo + q
        ELSE IF (lo \div q) % 2 = 0 THEN lo ELSE lo + q

Float32Representable(arr) ==
    \A i \in DOMAIN arr.elems : ToFloat32(arr.elems[i]) = arr.elems[i]

(***************************************************************************)
(* Labels: strings, converted to a numpy byte-string array (dtype='S'),    *)
(* stored as a fixed-length string attribute, read back, decoded as UTF-8. *)
(***************************************************************************)
Chars == {"x", "y"}

Ord(c) == IF c = "x" THEN 120 ELSE 121

Chr(b) == IF b = 120 THEN "x" ELSE IF b = 121 THEN "y" ELSE "?"

\* np.array([...], dtype='S'): each string ASCII-encoded to bytes
EncodeStr(s) == [i \in 1..Len(s) |-> Ord(s[i])]

NpBytes(strs) == [i \in 1..Len(strs) |-> EncodeStr(strs[i])]

\* label.decode('utf-8') of each element (all bytes here are below 128)
DecodeBytes(b) == [i \in 1..Len(b) |-> Chr(b[i])]

DecodeAll(bytesArr) == [i \in 1..Len(bytesArr) |-> DecodeBytes(bytesArr[i])]

RECURSIVE MaxLen(_)
MaxLen(bytesArr) ==
    IF bytesArr = <<>> THEN 0
    ELSE LET m == MaxLen(Tail(bytesArr))
         IN  IF Len(Head(bytesArr)) > m THEN Len(Head(bytesArr)) ELSE m

\* the attribute is stored with a fixed-length string type: every element
\* padded with NUL bytes to the longest element's length
PadTo(b, n) == b \o [i \in 1..(n - Len(b)) |-> 0]

StoreAttr(bytesArr) ==
    [i \in 1..Len(bytesArr) |-> PadTo(bytesArr[i], MaxLen(bytesArr))]

\* numpy strips the trailing NUL bytes of an 'S' element on access
RECURSIVE StripNul(_)
StripNul(b) ==
    IF b # <<>> /\ b[Len(b)] = 0 THEN StripNul(SubSeq(b, 1, Len(b) - 1)) ELSE b

ReadAttr(stored) == [i \in 1..Len(stored) |-> StripNul(stored[i])]

LabelStrs == {<<<<"x">>>>, <<<<"x", "y">>, <<"y">>>>}

(***************************************************************************)
(* The container file.                                                     *)
(***************************************************************************)
Names == {"image", "other"}

AbsentDataset ==
    [present |-> FALSE, shape |-> <<>>, chunks |-> <<>>, dtype |-> "none",
     data |-> <<>>, hasLabel |-> FALSE, label |-> <<>>]

NoFile == [exists |-> FALSE, dsets |-> [n \in Names |-> AbsentDataset]]

NoArray == [shape |-> <<>>, elems |-> <<>>]

NoCall ==
    [op |-> "none", name |-> "none", shape |-> <<>>, f32 |-> TRUE,
     fresh |-> FALSE, had |-> "absent", result |-> "none"]

\* what a read past the end of a buffer may find, as float32 values
GarbageValues == {0, 3}

\* chunks=(1, *shape[1:])
ChunkShape(shape) == <<1>> \o (IF shape = <<>> THEN <<>> ELSE Tail(shape))

\* h5py's create_dataset with chunks: a scalar dataset takes no chunk option
\* (TypeError); a chunk dimension must be positive and no larger than the
\* dataset's (ValueError)
CreateError(shape) ==
    IF shape = <<>> THEN "TypeError"
    ELSE IF \E i \in DOMAIN shape : shape[i] = 0 THEN "ValueError"
    ELSE "ok"

NewDataset(shape) ==
    [present |-> TRUE, shape |-> shape, chunks |-> ChunkShape(shape),
     dtype |-> "float32", data |-> [i \in 1..Size(shape) |-> 0],
     hasLabel |-> FALSE, label |-> <<>>]

\* a require_dataset that replaces an existing dataset of another shape
RequireDatasetReplacing(dsets, name, shape) ==
    IF CreateError(shape) = "ok"
    THEN [result |-> "ok",
          dsets |-> IF dsets[name].present /\ dsets[name].shape = shape
                    THEN dsets ELSE [dsets EXCEPT ![name] = NewDataset(shape)]]
    ELSE [result |-> CreateError(shape), dsets |-> dsets]

\* file.require_dataset(dataset_name, shape=shape, chunks=..., dtype=float32)
RequireDataset(dsets, name, shape) ==
    IF ~dsets[name].present
    THEN IF CreateError(shape) = "ok"
         THEN [result |-> "ok",
               dsets |-> [dsets EXCEPT ![name] = NewDataset(shape)]]
         ELSE [result |-> CreateError(shape), dsets |-> dsets]
    ELSE IF shape # dsets[name].shape
         THEN [result |-> "TypeError", dsets |-> dsets]
         ELSE [result |-> "ok", dsets |-> dsets]

\* setup_hdf5_file: h5py.File(file_path, 'a') creates the file when it is
\* absent, then require_dataset
SetupFile(file, name, shape) ==
    LET r == RequireDataset(file.dsets, name, shape)
    IN  [result |-> r.result, file |-> [exists |-> TRUE, dsets |-> r.dsets]]

\* a write that takes only an array of the dataset's own shape
SameShape(src, dst) == src = dst

\* h5py's broadcasting rule for dataset[...] = value (Selection.expand_shape):
\* aligned from the right, a source dimension is 1 or the dataset's; the
\* source's extra leading dimensions are at most 1
CanBroadcast(src, dst) ==
    \A j \in DOMAIN src :
        LET p == j + Len(dst) - Len(src)
        IN  IF p >= 1 THEN src[j] = 1 \/ src[j] = dst[p] ELSE src[j] <= 1

\* the rule lets a source with a zero leading extra dimension through: the
\* write then reads the dataset's size from an empty buffer
ReadsPastBuffer(src, dst) == CanBroadcast(src, dst) /\ Size(src) = 0

\* the source element written to the dataset's k-th element (k 0-based)
SourceIndex(k, src, dst) ==
    LET idx == Unravel(k, dst)
        sidx == [j \in 1..Len(src) |->
                    IF src[j] = 1 THEN 0 ELSE idx[j + Len(dst) - Len(src)]]
    IN  Ravel(sidx, src) + 1

\* a write that fills the dataset with the array's first element
BroadcastWriteFirst(arr, dst) ==
    [k \in 1..Size(dst) |-> ToFloat32(arr.elems[1])]

\* dataset[...] = data_array: broadcast, each element converted to float32
BroadcastWrite(arr, dst) ==
    [k \in 1..Size(dst) |-> ToFloat32(arr.elems[SourceIndex(k - 1, arr.shape, dst)])]

\* a label that is set only when the dataset has none yet
SetLabelOnce(ds, bytesArr) ==
    IF ds.hasLabel THEN ds
    ELSE [ds EXCEPT !.hasLabel = TRUE, !.label = StoreAttr(bytesArr)]

\* dataset.attrs['label'] = label_array replaces the attribute
SetLabel(ds, bytesArr) ==
    [ds EXCEPT !.hasLabel = TRUE, !.label = StoreAttr(bytesArr)]

(***************************************************************************)
(* Reading back, as the example script does.                               *)
(***************************************************************************)
ReadData(name) ==
    [shape |-> h5file.dsets[name].shape, elems |-> h5file.dsets[name].data]

ReadLabelStrs(name) == DecodeAll(ReadAttr(h5file.dsets[name].label))

(***************************************************************************)
(* The operations.                                                         *)
(***************************************************************************)
\* what a call found: no dataset of that name, one never written (no label
\* attribute), or one written before
Had(name) ==
    IF ~h5file.dsets[name].present THEN "absent"
    ELSE IF h5file.dsets[name].hasLabel THEN "written" ELSE "created"

Call(op, name, shape, f32, result) ==
    [op |-> op, name |-> name, shape |-> shape, f32 |-> f32,
     fresh |-> ~h5file.exists, had |-> Had(name), result |-> result]

Failed(name, arr, result, file) ==
    /\ h5file' = file
    /\ last' = Call("write", name, arr.shape, Float32Representable(arr), result)
    /\ lastData' = NoArray
    /\ lastStrs' = <<>>
    /\ UNCHANGED <<pathvars, printvars>>

setup_hdf5_file(name, shape) ==
    LET r == SetupFile(h5file, name, shape)
    IN  /\ h5file' = r.file
        /\ last' = Call("setup", name, shape, TRUE, r.result)
        /\ lastData' = NoArray
        /\ lastStrs' = <<>>
        /\ UNCHANGED <<pathvars, printvars>>

write_data_and_label(name, arr, strs) ==
    LET r  == IF ~h5file.exists THEN SetupFile(h5file, name, arr.shape)
              ELSE [result |-> "ok", file |-> h5file]
        ds == r.file.dsets[name]
    IN  IF r.result # "ok"
        THEN Failed(name, arr, r.result, r.file)
        ELSE IF ~ds.present
        THEN Failed(name, arr, "KeyError", r.file)
        ELSE IF ~CanBroadcast(arr.shape, ds.shape)
        THEN Failed(name, arr, "TypeError", r.file)
        ELSE /\ \E data \in (IF ReadsPastBuffer(arr.shape, ds.shape)
                              THEN [1..Size(ds.shape) -> GarbageValues]
                              ELSE {BroadcastWrite(arr, ds.shape)}) :
                   h5file' = [r.file EXCEPT !.dsets[name] =
                                SetLabel([ds EXCEPT !.data = data], NpBytes(strs))]
             /\ last' = Call("write", name, arr.shape,
                             Float32Representable(arr), "ok")
             /\ lastData' = arr
             /\ lastStrs' = strs
             /\ UNCHANGED <<pathvars, printvars>>

ShapesFor(name) == IF name = "image" THEN Shapes ELSE SecondaryShapes

Setup ==
    \E name \in Names : \E shape \in ShapesFor(name) :
        setup_hdf5_file(name, shape)

Write ==
    \E name \in Names : \E shape \in ShapesFor(name) :
        \E arr \in ArraysOf(shape), strs \in LabelStrs :
            write_data_and_label(name, arr, strs)

(***************************************************************************)
(* The file system and the path resolver (project_path.py).  A path is the *)
(* sequence of its components; the file system root is the empty sequence. *)
(***************************************************************************)
Root == <<>>

\* os.path.dirname: the root is its own parent
Dirname(p) == IF p = Root THEN Root ELSE SubSeq(p, 1, Len(p) - 1)

\* os.path.exists
Exists(p) == p \in fsDirs \/ p \in fsFiles

\* os.listdir: the names of the directories and files directly in d
Listdir(d) ==
    {p[Len(p)] : p \in {q \in fsDirs \cup fsFiles : q # Root /\ Dirname(q) = d}}

\* marker='setup.cfg'
DefaultMarker == "setup.cfg"

Markers == {DefaultMarker, "Makefile"}

\* the while loop of find_project_root, from current_dir upward
RECURSIVE WalkUp(_, _)
WalkUp(current_dir, marker) ==
    IF current_dir # Dirname(current_dir)
    THEN IF marker \in Listdir(current_dir)
         THEN [result |-> "ok", path |-> current_dir]
         ELSE WalkUp(Dirname(current_dir), marker)
    ELSE [result |-> "FileNotFoundError", path |-> Root]

FindProjectRoot(marker) == WalkUp(cwd, marker)

\* git.Repo(os.getcwd(), search_parent_directories=True): the nearest
\* directory from the working directory upward that holds a repository
RECURSIVE RepoAbove(_)
RepoAbove(d) ==
    IF d \in repos THEN [result |-> "ok", path |-> d]
    ELSE IF d = Root THEN [result |-> "InvalidGitRepositoryError", path |-> Root]
    ELSE RepoAbove(Dirname(d))

\* what the query can run into besides the layout: the path vanishing under
\* git.Repo (NoSuchPathError), the git command failing in rev_parse
GitEnvs == {"normal", "NoSuchPathError", "GitCommandError"}

\* git.Repo(...) and git_repo.git.rev_parse('--show-toplevel')
GitQuery(env) ==
    IF env = "NoSuchPathError" THEN [result |-> "NoSuchPathError", path |-> Root]
    ELSE IF RepoAbove(cwd).result # "ok" THEN RepoAbove(cwd)
    ELSE IF env = "GitCommandError" THEN [result |-> "GitCommandError", path |-> Root]
    ELSE RepoAbove(cwd)

\* a gitdir whose except clause names InvalidGitRepositoryError alone
GitdirInvalidOnly(env) ==
    LET q == GitQuery(env)
    IN  IF q.result = "ok"
        THEN [result |-> "ok", path |-> q.path, consulted |-> <<"git">>]
        ELSE IF q.result = "InvalidGitRepositoryError"
        THEN [result |-> FindProjectRoot(DefaultMarker).result,
              path |-> FindProjectRoot(DefaultMarker).path,
              consulted |-> <<"git", "find_project_root">>]
        ELSE [result |-> q.result, path |-> Root, consulted |-> <<"git">>]

\* gitdir: the result, and the collaborators consulted in order
Gitdir(env) ==
    LET q == GitQuery(env)
    IN  IF q.result = "ok"
        THEN [result |-> "ok", path |-> q.path, consulted |-> <<"git">>]
        ELSE IF q.result \in {"InvalidGitRepositoryError", "NoSuchPathError"}
        THEN [result |-> FindProjectRoot(DefaultMarker).result,
              path |-> FindProjectRoot(DefaultMarker).path,
              consulted |-> <<"git", "find_project_root">>]
        ELSE [result |-> q.result, path |-> Root, consulted |-> <<"git">>]

\* os.path.join(gitdir(), 'data/', path) for a relative path
Join(root, category, name) == root \o <<category>> \o name

\* os.makedirs: the directory and its missing ancestors
Prefixes(p) == {SubSeq(p, 1, k) : k \in 0..Len(p)}

Makedirs(dirs, p) == dirs \cup Prefixes(p)

NoPathCall ==
    [op |-> "none", marker |-> "none", name |-> <<>>, mkdir |-> FALSE,
     env |-> "normal", result |-> "none", path |-> Root, consulted |-> <<>>]

PathCall(op, marker, name, mkdir, env, result, path, consulted) ==
    [op |-> op, marker |-> marker, name |-> name, mkdir |-> mkdir, env |-> env,
     result |-> result, path |-> path, consulted |-> consulted]

find_project_root(marker) ==
    LET r == FindProjectRoot(marker)
    IN  /\ pathLast' = PathCall("find_project_root", marker, <<>>, FALSE, "normal",
                                r.result, r.path, <<>>)
        /\ UNCHANGED <<fsDirs, fsFiles, repos, cwd>>
        /\ UNCHANGED <<h5vars, printvars>>

gitdir(env) ==
    LET g == Gitdir(env)
    IN  /\ pathLast' = PathCall("gitdir", "none", <<>>, FALSE, env,
                                g.result, g.path, g.consulted)
        /\ UNCHANGED <<fsDirs, fsFiles, repos, cwd>>
        /\ UNCHANGED <<h5vars, printvars>>

\* datadir and plotsdir: the same body with 'data/' and 'plots/'
ResourceDir(op, category, name, mkdir, env) ==
    LET g    == Gitdir(env)
        path == Join(g.path, category, name)
    IN  /\ IF g.result # "ok"
           THEN /\ pathLast' = PathCall(op, "none", name, mkdir, env, g.result,
                                        Root, g.consulted)
                /\ UNCHANGED fsDirs
           ELSE /\ fsDirs' = IF ~Exists(path) /\ mkdir
                             THEN Makedirs(fsDirs, path) ELSE fsDirs
                /\ pathLast' = PathCall(op, "none", name, mkdir, env, "ok", path,
                                        g.consulted)
        /\ UNCHANGED <<fsFiles, repos, cwd>>
        /\ UNCHANGED <<h5vars, printvars>>

datadir(name, mkdir, env) == ResourceDir("datadir", "data", name, mkdir, env)

plotsdir(name, mkdir, env) == ResourceDir("plotsdir", "plots", name, mkdir, env)

\* the working directories of the model: p/data/sub/... to MaxDepth levels
ChainName(i) == IF i = 1 THEN "p" ELSE IF i = 2 THEN "data" ELSE "sub"

Chain == [i \in 1..MaxDepth |-> ChainName(i)]

ChainDirs == Prefixes(Chain)

\* the directory names given to datadir and plotsdir
DirNames == {<<"x">>, <<"setup.cfg">>}

FindRoot == \E marker \in Markers : find_project_root(marker)

GitRoot == \E env \in GitEnvs : gitdir(env)

\* datadir and plotsdir are called with the query failing only by the layout
ResourceEnvs == {"normal"}

DataDir ==
    \E name \in DirNames, mkdir \in BOOLEAN, env \in ResourceEnvs :
        datadir(name, mkdir, env)

PlotsDir ==
    \E name \in {<<"x">>}, mkdir \in BOOLEAN, env \in ResourceEnvs :
        plotsdir(name, mkdir, env)

(***************************************************************************)
(* The structure printer.  An item of a group is a group or a dataset; a   *)
(* printed line is its kind, its indentation and the fields it shows.      *)
(***************************************************************************)
GroupItem(name, items) ==
    [kind |-> "group", name |-> name, shape |-> <<>>, dtype |-> "none",
     attrs |-> <<>>, items |-> items]

DatasetItem(name, shape, dtype, attrs) ==
    [kind |-> "dataset", name |-> name, shape |-> shape, dtype |-> dtype,
     attrs |-> attrs, items |-> <<>>]

\* an attribute as h5py reads it: a one-dimensional array of byte strings
\* (kind "S") or of numbers (kind "float64"), each element as its bytes
Attr(name, kind, value) == [name |-> name, kind |-> kind, value |-> value]

Line(kind, indent, name, shape, dtype, values) ==
    [kind |-> kind, indent |-> indent, name |-> name, shape |-> shape,
     dtype |-> dtype, values |-> values]

\* label.decode on an element that is no byte string raises: nothing is
\* printed from there on
Raise(exception) == Line("raise", 0, exception, <<>>, <<>>, <<>>)

RECURSIVE UpToRaise(_)
UpToRaise(lines) ==
    IF lines = <<>> \/ Head(lines).kind = "raise" THEN <<>>
    ELSE <<Head(lines)>> \o UpToRaise(Tail(lines))

Raised(lines) ==
    IF \E i \in DOMAIN lines : lines[i].kind = "raise"
    THEN lines[Len(UpToRaise(lines)) + 1].name ELSE "ok"

\* attr_value.shape, attr_value.size and attr_value.dtype of such an array
AttrShape(value) == <<Len(value)>>

AttrSize(value) == Len(value)

AttrDtype(a) ==
    IF a.kind = "S" THEN <<"S", MaxLen(a.value)>> ELSE <<"float64", 8>>

\* if attr_value.size < 10
SmallAttrSize == 10

ShowsValues(value) == AttrSize(value) < SmallAttrSize

RECURSIVE RenderAttrs(_, _)
RenderAttrs(attrs, indent) ==
    IF attrs = <<>> THEN <<>>
    ELSE LET a == Head(attrs)
         IN  <<Line("attr", indent + 4, a.name, AttrShape(a.value),
                    AttrDtype(a), <<>>)>>
             \o (IF ShowsValues(a.value)
                 THEN IF a.kind = "S"
                      THEN <<Line("values", indent + 4, "values", <<>>, <<>>,
                                  DecodeAll(a.value))>>
                      ELSE <<Raise("AttributeError")>>
                 ELSE <<>>)
             \o RenderAttrs(Tail(attrs), indent)

\* print_hdf5_structure(group, indent): the lines printed, in order
RECURSIVE Render(_, _)
RECURSIVE RenderItems(_, _)
RenderItem(item, indent) ==
    IF item.kind = "group"
    THEN <<Line("group", indent, item.name, <<>>, <<>>, <<>>)>>
         \o Render(item.items, indent + 2)
    ELSE <<Line("dataset", indent, "dataset:", <<>>, <<>>, <<>>),
           Line("dsinfo", indent + 4, item.name, item.shape, item.dtype, <<>>)>>
         \o (IF Len(item.attrs) > 0
             THEN <<Line("attributes", indent, "attributes:", <<>>, <<>>, <<>>)>>
                  \o RenderAttrs(item.attrs, indent)
             ELSE <<>>)

RenderItems(items, indent) ==
    IF items = <<>> THEN <<>>
    ELSE RenderItem(Head(items), indent) \o RenderItems(Tail(items), indent)

Render(items, indent) ==
    <<Line("header", 0, "HDF5 File Structure:", <<>>, <<>>, <<>>)>>
    \o RenderItems(items, indent)

\* indent: int = 2
DefaultIndent == 2

print_hdf5_structure ==
    /\ prOut' = UpToRaise(Render(prGroup.items, DefaultIndent))
    /\ prResult' = Raised(Render(prGroup.items, DefaultIndent))
    /\ UNCHANGED prGroup
    /\ UNCHANGED <<h5vars, pathvars>>

\* the groups printed: attributes of 1, 9 and 10 byte strings of different
\* lengths and of 2 and 10 numbers, datasets of two shapes and element
\* types, groups of up to two items with different names, nested to MaxNest
ByteStrings(n) == [i \in 1..n |-> IF i % 2 = 1 THEN <<120>> ELSE <<121, 120>>]

Numbers(n) == [i \in 1..n |-> <<0, 0, 0, 0, 0, 0, 240, 63>>]

AttrLists ==
    { <<>>,
      <<Attr("label", "S", ByteStrings(SmallAttrSize - 1))>>,
      <<Attr("label", "S", ByteStrings(SmallAttrSize))>>,
      <<Attr("tag", "S", ByteStrings(1)),
        Attr("label", "S", ByteStrings(SmallAttrSize))>>,
      <<Attr("scale", "float64", Numbers(2))>>,
      <<Attr("scale", "float64", Numbers(SmallAttrSize))>> }

Datasets ==
    {DatasetItem("a", <<2>>, <<"float32", 4>>, attrs) : attrs \in AttrLists}
        \cup {DatasetItem("b", <<1, 2>>, <<"int64", 8>>, attrs) : attrs \in AttrLists}

ItemLists(items) ==
    {<<>>} \cup {<<i>> : i \in items}
           \cup {<<i, j>> : i \in items, j \in {k \in items : k.kind = "dataset"}}
           \cup {<<i, j>> : i \in {k \in items : k.kind = "dataset"}, j \in items}

DistinctNames(list) ==
    \A i, j \in DOMAIN list : i # j => list[i].name # list[j].name

RECURSIVE ItemsTo(_)
ItemsTo(nest) ==
    IF nest = 0 THEN Datasets
    ELSE Datasets \cup
         {GroupItem("g", l) :
            l \in {m \in ItemLists(ItemsTo(nest - 1)) : DistinctNames(m)}}

Groups ==
    {GroupItem("/", l) :
        l \in {m \in ItemLists(ItemsTo(MaxNest)) : DistinctNames(m)}}

NoGroup == GroupItem("none", <<>>)

\* the container writer, in a fixed file system
InitH5 ==
    /\ h5file = NoFile
    /\ last = NoCall
    /\ lastData = NoArray
    /\ lastStrs = <<>>
    /\ fsDirs = ChainDirs
    /\ fsFiles = {}
    /\ repos = {Root}
    /\ cwd = Chain
    /\ pathLast = NoPathCall
    /\ prGroup = NoGroup
    /\ prOut = <<>>
    /\ prResult = "none"

NextH5 == Setup \/ Write

SpecH5 == InitH5 /\ [][NextH5]_vars

\* the path resolver, with no container file.  A layout: the working
\* directory at the chain's end or at the root, the default marker in any of
\* the chain's directories, the other marker and a repository each in at
\* most one
InitPath ==
    /\ h5file = NoFile
    /\ last = NoCall
    /\ lastData = NoArray
    /\ lastStrs = <<>>
    /\ fsDirs = ChainDirs
    /\ \E holders \in SUBSET ChainDirs, other \in SUBSET ChainDirs :
          /\ Cardinality(other) <= 1
          /\ fsFiles = {d \o <<DefaultMarker>> : d \in holders}
                          \cup {d \o <<"Makefile">> : d \in other}
    /\ repos \in {r \in SUBSET ChainDirs : Cardinality(r) <= 1}
    /\ cwd \in {Root, Chain}
    /\ pathLast = NoPathCall
    /\ prGroup = NoGroup
    /\ prOut = <<>>
    /\ prResult = "none"

NextPath == FindRoot \/ GitRoot \/ DataDir \/ PlotsDir

SpecPath == InitPath /\ [][NextPath]_vars

\* the structure printer, given one of the groups
InitPrint ==
    /\ h5file = NoFile
    /\ last = NoCall
    /\ lastData = NoArray
    /\ lastStrs = <<>>
    /\ fsDirs = ChainDirs
    /\ fsFiles = {}
    /\ repos = {Root}
    /\ cwd = Chain
    /\ pathLast = NoPathCall
    /\ prGroup \in Groups
    /\ prOut = <<>>
    /\ prResult = "none"

NextPrint == print_hdf5_structure

SpecPrint == InitPrint /\ [][NextPrint]_vars

(***************************************************************************)
(* Claims about the container writer.                                      *)
(***************************************************************************)
Ds(name) == h5file.dsets[name]

Wrote == last.op = "write"

\* the dataset of the last call is as setup_hdf5_file creates it for the
\* call's shape
DatasetAsSetUp ==
    /\ Ds(last.name).present
    /\ Ds(last.name).shape = last.shape
    /\ Ds(last.name).chunks = <<1>> \o Tail(last.shape)
    /\ Ds(last.name).dtype = "float32"

RoundTrip ==
    /\ last.result = "ok"
    /\ ReadData(last.name) = lastData
    /\ Ds(last.name).hasLabel
    /\ ReadLabelStrs(last.name) = lastStrs

\* C1 as claimed: a write of ANY float32-representable array to a path where
\* no file exists returns, and the dataset and the label read back equal
\* what was written.
C1_AsClaimed == (Wrote /\ last.fresh /\ last.f32) => RoundTrip

\* C1 (amended): a write of a float32-representable array of rank >= 1 with
\* no zero-length dimension to a path where no file exists returns; the
\* dataset read back has the array's shape and equals it element for
\* element, and the decoded 'label' attribute equals the label strings.
C1_RoundTrip ==
    (Wrote /\ last.fresh /\ last.f32 /\ CreateError(last.shape) = "ok")
        => RoundTrip

C1_Witness ==
    /\ Wrote /\ last.fresh /\ last.f32 /\ last.result = "ok"
    /\ last.shape = <<1, 2>>
    /\ lastStrs = <<<<"x", "y">>, <<"y">>>>

\* C2 as claimed: whether or not a file already exists, a write (with a
\* shape a dataset can be created with, and that agrees with the dataset's
\* shape if the dataset exists already) leaves the file holding the dataset
\* with shape data_array.shape, chunks (1, *shape[1:]), dtype float32, the
\* data and the label.
C2_AsClaimed ==
    (/\ Wrote
     /\ CreateError(last.shape) = "ok"
     /\ (last.had # "absent" => Ds(last.name).shape = last.shape))
        => (/\ last.result = "ok"
            /\ h5file.exists
            /\ DatasetAsSetUp
            /\ Ds(last.name).data = [i \in DOMAIN lastData.elems |->
                                        ToFloat32(lastData.elems[i])]
            /\ ReadLabelStrs(last.name) = lastStrs)

\* C3 as claimed: after a write that returned, with an array of the
\* dataset's shape, the dataset read back equals data_array and the label
\* read back equals label_array.
C3_AsClaimed ==
    (Wrote /\ last.result = "ok" /\ last.shape = Ds(last.name).shape)
        => (ReadData(last.name) = lastData /\ ReadLabelStrs(last.name) = lastStrs)

\* C3 (amended): after a write that returned, with an array of the dataset's
\* shape, the dataset read back equals data_array converted to float32
\* (data_array itself when its values are float32-representable) and the
\* label read back equals label_array; nothing of an earlier content or
\* label remains.
C3_Overwrites ==
    (Wrote /\ last.result = "ok" /\ last.shape = Ds(last.name).shape)
        => (/\ ReadData(last.name).shape = lastData.shape
            /\ ReadData(last.name).elems =
                   [i \in DOMAIN lastData.elems |-> ToFloat32(lastData.elems[i])]
            /\ (last.f32 => ReadData(last.name) = lastData)
            /\ Ds(last.name).hasLabel
            /\ ReadLabelStrs(last.name) = lastStrs)

\* a second write: the dataset had been written before, with a longer label
C3_Witness ==
    /\ Wrote /\ last.result = "ok" /\ last.had = "written"
    /\ last.shape = <<2>> /\ Ds(last.name).shape = <<2>>
    /\ ~last.f32
    /\ lastStrs = <<<<"x">>>>

\* C4 as claimed: a write to an existing dataset with an array of a
\* different shape ends in an error.
C4_AsClaimed ==
    (Wrote /\ last.had # "absent" /\ last.shape # Ds(last.name).shape)
        => last.result # "ok"

\* src cannot be broadcast to dst: some dimension of src, aligned from the
\* right, is neither 1 nor dst's, or src has an extra leading dimension
\* above 1
Incompatible(src, dst) ==
    \/ \E j \in 1..Len(src) :
          /\ Len(src) - j < Len(dst)
          /\ src[j] # 1
          /\ src[j] # dst[j + Len(dst) - Len(src)]
    \/ \E j \in 1..(Len(src) - Len(dst)) : src[j] > 1

\* C4 (amended): a write to an existing dataset of shape S with an array
\* whose shape cannot be broadcast to S ends in the library's TypeError and
\* leaves the dataset's shape; a different shape that broadcasts to S is
\* written without error.
C4_ShapeMismatch ==
    (Wrote /\ last.had # "absent")
        => (/\ Incompatible(last.shape, Ds(last.name).shape)
                  => last.result = "TypeError"
            /\ ~Incompatible(last.shape, Ds(last.name).shape)
                  => last.result = "ok")

C4_Witness ==
    /\ Wrote /\ last.had # "absent" /\ last.result = "TypeError"
    /\ last.shape = <<2, 1>> /\ Ds(last.name).shape = <<1, 2>>

\* C5: once a dataset exists it stays, with the shape, chunk shape
\* (1, *shape[1:]) and dtype float32 it was created with, whatever call is
\* made and however it ends; setup_hdf5_file on an existing dataset changes
\* nothing, returning for the same shape and raising for another.
C5_ShapeFixed ==
    [][\A n \in Names :
          Ds(n).present =>
            /\ Ds(n)'.present
            /\ Ds(n)'.shape = Ds(n).shape
            /\ Ds(n)'.chunks = Ds(n).chunks
            /\ Ds(n)'.chunks = <<1>> \o Tail(Ds(n).shape)
            /\ Ds(n)'.dtype = "float32"
            /\ (last'.op = "setup" /\ last'.name = n) =>
                  /\ Ds(n)' = Ds(n)
                  /\ last'.result = "ok" <=> last'.shape = Ds(n).shape
                  /\ last'.result # "ok" => last'.result = "TypeError"]_vars

C5_Witness ==
    /\ last.op = "setup" /\ last.had = "written" /\ last.result = "TypeError"
    /\ Ds(last.name).shape = <<1, 2>> /\ last.shape = <<2>>

(***************************************************************************)
(* Claims about the path resolver.                                         *)
(***************************************************************************)
\* the directories from the working directory up to and including the file
\* system root that contain the marker of the last call
Holders == {d \in Prefixes(cwd) : pathLast.marker \in Listdir(d)}

\* C6 as claimed: when some directory from the working directory up to the
\* file system root (both included) contains marker, find_project_root
\* returns the nearest of them.
C6_AsClaimed ==
    (pathLast.op = "find_project_root" /\ Holders # {})
        => (/\ pathLast.result = "ok"
            /\ pathLast.path \in Holders
            /\ \A d \in Holders : Len(d) <= Len(pathLast.path))

\* C7 as claimed: find_project_root raises FileNotFoundError exactly when no
\* directory from the working directory up to the file system root contains
\* marker.
C7_AsClaimed ==
    pathLast.op = "find_project_root"
        => (pathLast.result = "FileNotFoundError" <=> Holders = {})

Occurrences(seq, x) == Cardinality({i \in DOMAIN seq : seq[i] = x})

\* C8: gitdir asks git first and once; when the query succeeds it returns
\* git's top-level directory without consulting find_project_root; when the
\* query fails as not-a-repository or no-such-path it returns what
\* find_project_root returns for the default marker, and raises only if
\* that fallback raises.
C8_Fallback ==
    pathLast.op = "gitdir" =>
        /\ pathLast.consulted # <<>>
        /\ Head(pathLast.consulted) = "git"
        /\ Occurrences(pathLast.consulted, "git") = 1
        /\ GitQuery(pathLast.env).result = "ok" =>
              /\ pathLast.result = "ok"
              /\ pathLast.path = GitQuery(pathLast.env).path
              /\ Occurrences(pathLast.consulted, "find_project_root") = 0
        /\ GitQuery(pathLast.env).result
                \in {"InvalidGitRepositoryError", "NoSuchPathError"} =>
              /\ pathLast.consulted = <<"git", "find_project_root">>
              /\ pathLast.result = WalkUp(cwd, "setup.cfg").result
              /\ pathLast.path = WalkUp(cwd, "setup.cfg").path
              /\ pathLast.result \in {"ok", "FileNotFoundError"}

\* the query failed with a repository above the working directory, and the
\* marker walk found the project root
C8_Witness ==
    /\ pathLast.op = "gitdir"
    /\ pathLast.env = "NoSuchPathError"
    /\ repos = {Root}
    /\ pathLast.consulted = <<"git", "find_project_root">>
    /\ pathLast.result = "ok"
    /\ pathLast.path = <<"p">>

\* C9 as claimed: datadir (plotsdir) called a second time with the same
\* arguments, mkdir true, in the same working directory returns the path of
\* the first call and creates nothing.
C9_AsClaimed ==
    [][(/\ pathLast.op \in {"datadir", "plotsdir"}
        /\ pathLast.result = "ok"
        /\ pathLast.mkdir
        /\ pathLast'.op = pathLast.op
        /\ pathLast'.name = pathLast.name
        /\ pathLast'.mkdir
        /\ pathLast'.env = pathLast.env
        /\ cwd' = cwd)
          => (/\ pathLast'.result = "ok"
              /\ pathLast'.path = pathLast.path
              /\ fsDirs' = fsDirs)]_vars

(***************************************************************************)
(* Claims about the structure printer.                                     *)
(***************************************************************************)
RECURSIVE Shown(_)
Shown(lines) ==
    IF lines = <<>> THEN <<>>
    ELSE (IF Head(lines).kind \in {"header", "attributes", "dataset"}
          THEN <<>> ELSE <<Head(lines)>>) \o Shown(Tail(lines))

RECURSIVE Longest(_)
Longest(value) ==
    IF value = <<>> THEN 0
    ELSE IF \A i \in DOMAIN value : Len(value[i]) <= Len(Head(value))
    THEN Len(Head(value)) ELSE Longest(Tail(value))

\* what the claim says is listed for the items of a group at nesting level
\* `level`: groups and datasets in order, a group's items right after it,
\* 2 more columns in per level, each attribute after its dataset, its
\* values when it has at most 9 elements
RECURSIVE Listing(_, _)
ListingOfAttrs(attrs, col) ==
    LET Entry(a) ==
            <<Line("attr", col, a.name, <<Len(a.value)>>,
                   IF a.kind = "S" THEN <<"S", Longest(a.value)>>
                   ELSE <<"float64", 8>>, <<>>)>>
            \o (IF Len(a.value) <= 9
                THEN <<Line("values", col, "values", <<>>, <<>>,
                            [i \in DOMAIN a.value |->
                                [k \in DOMAIN a.value[i] |-> Chr(a.value[i][k])]])>>
                ELSE <<>>)
    IN  IF Len(attrs) = 0 THEN <<>>
        ELSE IF Len(attrs) = 1 THEN Entry(attrs[1])
        ELSE Entry(attrs[1]) \o Entry(attrs[2])

Listing(items, level) ==
    IF items = <<>> THEN <<>>
    ELSE LET it == Head(items)
         IN  (IF it.kind = "group"
              THEN <<Line("group", 2 * (level + 1), it.name, <<>>, <<>>, <<>>)>>
                   \o Listing(it.items, level + 1)
              ELSE <<Line("dsinfo", 2 * (level + 1) + 4, it.name, it.shape,
                          it.dtype, <<>>)>>
                   \o ListingOfAttrs(it.attrs, 2 * (level + 1) + 4))
             \o Listing(Tail(items), level)

\* C10 as claimed: print_hdf5_structure returns, and what it printed lists
\* the groups and datasets of the group in iteration order, depth-first,
\* 2 columns further in per level, each dataset with name, shape and dtype,
\* each attribute with name, shape and dtype, and the values of exactly the
\* attributes of fewer than 10 elements; and the group is never changed.
C10_AsClaimed ==
    /\ [](prResult # "none" =>
            /\ prResult = "ok"
            /\ Shown(prOut) = Listing(prGroup.items, 0))
    /\ [][prGroup' = prGroup]_vars

====
